---- MODULE Spec2Model ----
(***************************************************************************)
(* Model of the BRAC University crawler (crawl.py): the URL helpers, the   *)
(* content and link extraction, the checkpoint file and the crawl loop of  *)
(* main().  Python strings are sequences of one-character strings, so that *)
(* endswith, split, strip, replace and the substring tests are computed    *)
(* as the code computes them.                                              *)
(* Spec is one run of main() from a checkpoint file a crawl can have left, *)
(* FairSpec adds that the run keeps going, SpecRestart stops and restarts  *)
(* the process, and SpecFn calls the helpers on their own.                 *)
(***************************************************************************)
EXTENDS FiniteSets, Integers, Sequences, TLC

(* ------------------------------------------------------------------ *)
(* Bounds of the model                                                 *)
(* ------------------------------------------------------------------ *)
\* number of SEED_PATHS entries (a prefix of the list) a run seeds with
NumSeeds == 1
\* max_pages is drawn from 0..MaxBudget
MaxBudget == 2
\* number of consecutive runs of main() in one behaviour of SpecRestart
MaxRuns == 2

(* ------------------------------------------------------------------ *)
(* CONFIGURATION (crawl.py 15-67)                                      *)
(* ------------------------------------------------------------------ *)
START_URL == <<"h","t","t","p","s",":","/","/","w","w","w",".","b","r","a","c","u",".","a","c",".","b","d","/">>
MAX_RETRIES == 2
SEED_PATHS ==
  << <<"/">>,
     <<"/","a","b","o","u","t">>,
     <<"/","a","b","o","u","t","/","o","v","e","r","v","i","e","w">>,
     <<"/","a","b","o","u","t","/","m","i","s","s","i","o","n","-","v","i","s","i","o","n">>,
     <<"/","a","b","o","u","t","/","h","i","s","t","o","r","y">>,
     <<"/","a","b","o","u","t","/","g","o","v","e","r","n","a","n","c","e">>,
     <<"/","a","b","o","u","t","/","a","c","c","r","e","d","i","t","a","t","i","o","n">>,
     <<"/","a","c","a","d","e","m","i","c","s">>,
     <<"/","a","c","a","d","e","m","i","c","s","/","p","r","o","g","r","a","m","s">>,
     <<"/","a","c","a","d","e","m","i","c","s","/","u","n","d","e","r","g","r","a","d","u","a","t","e","-","p","r","o","g","r","a","m","s">>,
     <<"/","a","c","a","d","e","m","i","c","s","/","g","r","a","d","u","a","t","e","-","p","r","o","g","r","a","m","s">>,
     <<"/","a","c","a","d","e","m","i","c","s","/","d","e","p","a","r","t","m","e","n","t","s">>,
     <<"/","a","d","m","i","s","s","i","o","n","s">>,
     <<"/","a","d","m","i","s","s","i","o","n","s","/","u","n","d","e","r","g","r","a","d","u","a","t","e">>,
     <<"/","a","d","m","i","s","s","i","o","n","s","/","g","r","a","d","u","a","t","e">>,
     <<"/","a","d","m","i","s","s","i","o","n","s","/","i","n","t","e","r","n","a","t","i","o","n","a","l","-","s","t","u","d","e","n","t","s">>,
     <<"/","a","d","m","i","s","s","i","o","n","s","/","t","u","i","t","i","o","n","-","f","e","e","s">>,
     <<"/","a","d","m","i","s","s","i","o","n","s","/","s","c","h","o","l","a","r","s","h","i","p","s","-","a","n","d","-","f","i","n","a","n","c","i","a","l","-","a","i","d">>,
     <<"/","r","e","s","e","a","r","c","h">>,
     <<"/","r","e","s","e","a","r","c","h","/","c","e","n","t","e","r","s">>,
     <<"/","r","e","s","e","a","r","c","h","/","p","u","b","l","i","c","a","t","i","o","n","s">>,
     <<"/","s","t","u","d","e","n","t","-","l","i","f","e">>,
     <<"/","s","t","u","d","e","n","t","-","l","i","f","e","/","c","l","u","b","s">>,
     <<"/","s","t","u","d","e","n","t","-","l","i","f","e","/","r","e","s","i","d","e","n","t","i","a","l","-","l","i","f","e">>,
     <<"/","s","t","u","d","e","n","t","-","l","i","f","e","/","c","a","r","e","e","r","-","s","e","r","v","i","c","e","s">>,
     <<"/","c","a","m","p","u","s">>,
     <<"/","f","a","c","u","l","t","y">>,
     <<"/","c","o","n","t","a","c","t">> >>
ALLOWED_DOMAINS ==
  { <<"w","w","w",".","b","r","a","c","u",".","a","c",".","b","d">>,
    <<"b","r","a","c","u",".","a","c",".","b","d">> }
SKIP_EXTENSIONS ==
  { <<".","j","p","g">>,
    <<".","j","p","e","g">>,
    <<".","p","n","g">>,
    <<".","g","i","f">>,
    <<".","s","v","g">>,
    <<".","w","e","b","p">>,
    <<".","i","c","o">>,
    <<".","p","d","f">>,
    <<".","z","i","p">>,
    <<".","r","a","r">>,
    <<".","7","z">>,
    <<".","d","o","c">>,
    <<".","d","o","c","x">>,
    <<".","p","p","t">>,
    <<".","p","p","t","x">>,
    <<".","x","l","s">>,
    <<".","x","l","s","x">>,
    <<".","c","s","s">>,
    <<".","j","s">>,
    <<".","j","s","o","n">>,
    <<".","x","m","l">>,
    <<".","m","p","3">>,
    <<".","m","p","4">>,
    <<".","a","v","i">>,
    <<".","m","o","v">>,
    <<".","w","m","v">> }
\* len(clean_text) > 150 (line 259), count % 10 (line 294), name[:80] (line 90)
MIN_CONTENT == 150
SAVE_EVERY == 10
NAME_LIMIT == 80

(* ------------------------------------------------------------------ *)
(* Python string operations on character sequences                     *)
(* ------------------------------------------------------------------ *)
\* In the operators below a bound variable (v \in {s}) names the value of an
\* argument, so that the argument is evaluated once.
Range(s) == UNION {{v[i] : i \in DOMAIN v} : v \in {s}}
SetMin(S) == CHOOSE x \in S : \A y \in S : x <= y
SetMax(S) == CHOOSE x \in S : \A y \in S : y <= x
Rep(c, n) == [i \in 1..n |-> c]
NoDup(s) == \A v \in {s} : \A i, j \in DOMAIN v : v[i] = v[j] => i = j
Occ(x, s) == Cardinality({i \in DOMAIN s : s[i] = x})

\* The characters of the model are the printable ASCII characters, the blank
\* (the only white space; there are no control characters except the "\n"
\* that joins lines) and, of the characters outside ASCII, the letters
\* é, É, ß, আ, ম, the digit ² and the vowel sign া.  str.isalnum, str.lower
\* and the class \w of re follow the Unicode character database: a letter or
\* a digit of any script is alphanumeric, a combining mark such as া is not.
Whitespace == {" "}
AsciiLower == <<"a","b","c","d","e","f","g","h","i","j","k","l","m",
                "n","o","p","q","r","s","t","u","v","w","x","y","z">>
AsciiUpper == <<"A","B","C","D","E","F","G","H","I","J","K","L","M",
                "N","O","P","Q","R","S","T","U","V","W","X","Y","Z">>
AsciiDigits == {"0","1","2","3","4","5","6","7","8","9"}
AsciiLetters == Range(AsciiLower) \cup Range(AsciiUpper)
\* the letters that have an upper and a lower case, position by position
LowerLetters == AsciiLower \o <<"é">>
UpperLetters == AsciiUpper \o <<"É">>
\* letters that str.lower leaves as they are
CaselessLetters == {"ß", "আ", "ম"}
Digits == AsciiDigits \cup {"²"}
Letters == Range(LowerLetters) \cup Range(UpperLetters) \cup CaselessLetters
AlnumChars == Letters \cup Digits
\* str.isalnum on one character
IsAlnum(c) == c \in AlnumChars
\* the characters matched by [\W_] in the regular expression of line 153
IsNonWord(c) == c \notin AlnumChars

LowerChar(c) ==
  IF c \in Range(UpperLetters)
  THEN LowerLetters[CHOOSE i \in DOMAIN UpperLetters : UpperLetters[i] = c]
  ELSE c
\* str.lower
Lower(s) == CHOOSE r \in {[i \in DOMAIN v |-> LowerChar(v[i])] : v \in {s}} : TRUE
\* str.startswith / str.endswith / the "in" substring test
StartsWith(s, p) ==
  \E v \in {s}, w \in {p} : Len(w) <= Len(v) /\ SubSeq(v, 1, Len(w)) = w
EndsWith(s, p) ==
  \E v \in {s}, w \in {p} :
    Len(w) <= Len(v) /\ SubSeq(v, Len(v) - Len(w) + 1, Len(v)) = w
Contains(s, p) ==
  \E v \in {s}, w \in {p} :
    \E i \in 1..(Len(v) - Len(w) + 1) : SubSeq(v, i, i + Len(w) - 1) = w
\* index of the first character of s that lies in cs, or Len(s)+1
FirstOf(s, cs) ==
  CHOOSE r \in
    { IF \E i \in DOMAIN v : v[i] \in cs
      THEN CHOOSE i \in DOMAIN v : v[i] \in cs /\ \A j \in 1..(i - 1) : v[j] \notin cs
      ELSE Len(v) + 1 : v \in {s} } : TRUE
\* index of the last character of s that is c, or 0
LastOf(s, c) ==
  CHOOSE r \in
    { IF \E i \in DOMAIN v : v[i] = c
      THEN SetMax({i \in DOMAIN v : v[i] = c})
      ELSE 0 : v \in {s} } : TRUE
\* s.split(c)[0]
SplitFirst(s, c) ==
  CHOOSE r \in {SubSeq(v, 1, FirstOf(v, {c}) - 1) : v \in {s}} : TRUE
\* s.split(c): the pieces between the occurrences of c, [""] for ""
RECURSIVE Split(_, _)
Split(s, c) ==
  CHOOSE r \in
    { IF i > Len(v) THEN <<v>>
      ELSE <<SubSeq(v, 1, i - 1)>> \o Split(SubSeq(v, i + 1, Len(v)), c)
      : <<v, i>> \in {<<s, FirstOf(s, {c})>>} } : TRUE
\* c.join(parts)
RECURSIVE Join(_, _)
Join(parts, c) ==
  IF parts = <<>> THEN <<>>
  ELSE IF Len(parts) = 1 THEN parts[1]
  ELSE parts[1] \o <<c>> \o Join(Tail(parts), c)
\* str.strip()
RECURSIVE LStripWs(_)
LStripWs(s) ==
  CHOOSE r \in
    { IF v # <<>> /\ Head(v) \in Whitespace THEN LStripWs(Tail(v)) ELSE v
      : v \in {s} } : TRUE
RECURSIVE RStrip(_, _)
\* str.rstrip(c)
RStrip(s, c) ==
  CHOOSE r \in
    { IF v # <<>> /\ v[Len(v)] = c THEN RStrip(SubSeq(v, 1, Len(v) - 1), c) ELSE v
      : v \in {s} } : TRUE
Strip(s) == RStrip(LStripWs(s), " ")
\* str.replace(old, new): non-overlapping occurrences, left to right
RECURSIVE Replace(_, _, _)
Replace(s, old, new) ==
  CHOOSE r \in
    { IF ~ Contains(v, old) THEN v
      ELSE CHOOSE r2 \in
        { SubSeq(v, 1, i - 1) \o new
            \o Replace(SubSeq(v, i + Len(old), Len(v)), old, new)
          : i \in { CHOOSE i \in 1..Len(v) :
                      /\ SubSeq(v, i, i + Len(old) - 1) = old
                      /\ \A j \in 1..(i - 1) : SubSeq(v, j, j + Len(old) - 1) # old } }
        : TRUE
      : v \in {s} } : TRUE

HTTPS == <<"h","t","t","p","s",":","/","/">>
HTTP == <<"h","t","t","p",":","/","/">>
JAVASCRIPT == <<"j","a","v","a","s","c","r","i","p","t",":">>
MAILTO == <<"m","a","i","l","t","o",":">>
TEL == <<"t","e","l",":">>
TXT == <<".","t","x","t">>

(* ------------------------------------------------------------------ *)
(* urllib.parse of Python 3.11 as crawl.py calls it: urlparse (line 76) *)
(* and urljoin (line 169).                                             *)
(* ------------------------------------------------------------------ *)
\* the value an operator yields when the Python call raises ValueError
RAISE == <<"ValueError">>
\* urllib.parse.uses_relative, uses_netloc and uses_params
UsesRelative ==
  { <<>>, <<"f","t","p">>, <<"h","t","t","p">>, <<"g","o","p","h","e","r">>,
    <<"n","n","t","p">>, <<"i","m","a","p">>, <<"w","a","i","s">>,
    <<"f","i","l","e">>, <<"h","t","t","p","s">>, <<"s","h","t","t","p">>,
    <<"m","m","s">>, <<"p","r","o","s","p","e","r","o">>,
    <<"r","t","s","p">>, <<"r","t","s","p","s">>, <<"r","t","s","p","u">>,
    <<"s","f","t","p">>, <<"s","v","n">>, <<"s","v","n","+","s","s","h">>,
    <<"w","s">>, <<"w","s","s">> }
UsesNetloc ==
  { <<>>, <<"f","t","p">>, <<"h","t","t","p">>, <<"g","o","p","h","e","r">>,
    <<"n","n","t","p">>, <<"t","e","l","n","e","t">>, <<"i","m","a","p">>,
    <<"w","a","i","s">>, <<"f","i","l","e">>, <<"m","m","s">>,
    <<"h","t","t","p","s">>, <<"s","h","t","t","p">>,
    <<"s","n","e","w","s">>, <<"p","r","o","s","p","e","r","o">>,
    <<"r","t","s","p">>, <<"r","t","s","p","s">>, <<"r","t","s","p","u">>,
    <<"r","s","y","n","c">>, <<"s","v","n">>,
    <<"s","v","n","+","s","s","h">>, <<"s","f","t","p">>, <<"n","f","s">>,
    <<"g","i","t">>, <<"g","i","t","+","s","s","h">>, <<"w","s">>,
    <<"w","s","s">> }
UsesParams ==
  { <<>>, <<"f","t","p">>, <<"h","d","l">>,
    <<"p","r","o","s","p","e","r","o">>, <<"h","t","t","p">>,
    <<"i","m","a","p">>, <<"h","t","t","p","s">>, <<"s","h","t","t","p">>,
    <<"r","t","s","p">>, <<"r","t","s","p","s">>, <<"r","t","s","p","u">>,
    <<"s","i","p">>, <<"s","i","p","s">>, <<"m","m","s">>,
    <<"s","f","t","p">>, <<"t","e","l">> }
SchemeChars == AsciiLetters \cup AsciiDigits \cup {"+", "-", "."}
HexDigits == AsciiDigits \cup {"a","b","c","d","e","f","A","B","C","D","E","F"}
\* urlsplit strips leading blanks (and control characters) before it parses
UrlLStrip(url) == LStripWs(url)
\* position, in the stripped URL, of the ":" that ends the scheme, or 0 if
\* there is no scheme
SchemeEnd(url) ==
  CHOOSE r \in
    { IF i > 1 /\ i <= Len(u) /\ u[1] \in AsciiLetters
         /\ \A k \in 1..(i - 1) : u[k] \in SchemeChars
      THEN i ELSE 0 : <<u, i>> \in {<<v, FirstOf(v, {":"})>> : v \in {UrlLStrip(url)}} }
    : TRUE
\* urlparse(url).scheme
UrlScheme(url) == Lower(SubSeq(UrlLStrip(url), 1, SchemeEnd(url) - 1))
\* what urlsplit parses after the scheme and its ":"
AfterScheme(url) ==
  CHOOSE r \in {SubSeq(u, SchemeEnd(u) + 1, Len(u)) : u \in {UrlLStrip(url)}} : TRUE
\* the text after the "//" that starts the network location, <<>> if none
AfterSlashes(url) ==
  CHOOSE r \in
    { IF StartsWith(rest, <<"/", "/">>) THEN SubSeq(rest, 3, Len(rest)) ELSE <<>>
      : rest \in {AfterScheme(url)} } : TRUE
\* urlparse(url).netloc
UrlNetloc(url) ==
  CHOOSE r \in
    { SubSeq(r2, 1, FirstOf(r2, {"/", "?", "#"}) - 1) : r2 \in {AfterSlashes(url)} }
    : TRUE
\* what follows the network location: path, "?" query and "#" fragment
UrlPathEtc(url) ==
  CHOOSE r \in
    { IF StartsWith(rest, <<"/", "/">>)
      THEN SubSeq(rest, 3 + Len(UrlNetloc(url)), Len(rest))
      ELSE rest : rest \in {AfterScheme(url)} } : TRUE
\* urlsplit(url).path, .query and .fragment
UrlPath(url) ==
  CHOOSE r \in
    { SubSeq(p, 1, FirstOf(p, {"?", "#"}) - 1) : p \in {UrlPathEtc(url)} } : TRUE
UrlFragment(url) ==
  CHOOSE r \in
    { SubSeq(p, FirstOf(p, {"#"}) + 1, Len(p)) : p \in {UrlPathEtc(url)} } : TRUE
UrlQuery(url) ==
  CHOOSE r \in
    { SubSeq(p, FirstOf(p, {"?"}) + 1, Len(p))
      : p \in {SplitFirst(UrlPathEtc(url), "#")} } : TRUE
\* _splitparams: the path and the parameters after the first ";" of its
\* last segment
SplitParams(path) ==
  CHOOSE r \in
    { IF i > Len(p) THEN <<p, <<>>>>
      ELSE <<SubSeq(p, 1, i - 1), SubSeq(p, i + 1, Len(p))>>
      : <<p, i>> \in
          { <<v, LastOf(v, "/") + FirstOf(SubSeq(v, LastOf(v, "/") + 1, Len(v)), {";"})>>
            : v \in {path} } } : TRUE

\* _parse_octet and IPv4Address: four decimal octets of at most 255
OctetOk(o) ==
  /\ o # <<>> /\ Len(o) <= 3
  /\ \A i \in DOMAIN o : o[i] \in AsciiDigits
  /\ o = <<"0">> \/ o[1] # "0"
  /\ Len(o) = 3 =>
        \/ o[1] = "1"
        \/ o[1] = "2" /\ o[2] \in {"0","1","2","3","4"}
        \/ o[1] = "2" /\ o[2] = "5" /\ o[3] \in {"0","1","2","3","4","5"}
IsIPv4(h) ==
  \E os \in {Split(h, ".")} : Len(os) = 4 /\ \A i \in DOMAIN os : OctetOk(os[i])
\* _parse_hextet
HextetOk(x) == x # <<>> /\ Len(x) <= 4 /\ \A i \in DOMAIN x : x[i] \in HexDigits
\* IPv6Address._ip_int_from_string accepts these parts of the address; an
\* IPv4 tail has been replaced by the two hextets it stands for
Ipv6PartsOk(parts) ==
  /\ Len(parts) <= 9
  /\ \E skips \in {{i \in 2..(Len(parts) - 1) : parts[i] = <<>>}} :
        /\ Cardinality(skips) <= 1
        /\ IF skips = {}
           THEN Len(parts) = 8 /\ \A i \in DOMAIN parts : HextetOk(parts[i])
           ELSE \E skip \in skips :
             \E hi \in {IF parts[1] = <<>> THEN skip - 2 ELSE skip - 1},
                lo \in {IF parts[Len(parts)] = <<>>
                        THEN Len(parts) - skip - 1 ELSE Len(parts) - skip} :
                /\ parts[1] = <<>> => hi = 0
                /\ parts[Len(parts)] = <<>> => lo = 0
                /\ hi + lo <= 7
                /\ \A i \in 1..hi : HextetOk(parts[i])
                /\ \A i \in (Len(parts) - lo + 1)..Len(parts) : HextetOk(parts[i])
\* IPv6Address(h) does not raise: an optional "%" zone, at least three parts
IsIPv6(h) ==
  /\ "/" \notin Range(h)
  /\ "%" \in Range(h) =>
        \E zone \in {SubSeq(h, FirstOf(h, {"%"}) + 1, Len(h))} :
           zone # <<>> /\ "%" \notin Range(zone)
  /\ \E addr \in {SplitFirst(h, "%")} :
        /\ addr # <<>>
        /\ \E parts \in {Split(addr, ":")} :
              /\ Len(parts) >= 3
              /\ IF "." \in Range(parts[Len(parts)])
                 THEN /\ IsIPv4(parts[Len(parts)])
                      /\ Ipv6PartsOk(SubSeq(parts, 1, Len(parts) - 1)
                                       \o << <<"0">>, <<"0">> >>)
                 ELSE Ipv6PartsOk(parts)
\* the regular expression \Av[a-fA-F0-9]+\..+\Z of _check_bracketed_host
IsIPvFuture(h) ==
  \E t \in {Tail(h)} :
     \E k \in {CHOOSE k \in 0..Len(t) :
                 /\ \A i \in 1..k : t[i] \in HexDigits
                 /\ k < Len(t) => t[k + 1] \notin HexDigits} :
        k >= 1 /\ Len(t) >= k + 2 /\ t[k + 1] = "."
\* netloc.partition("[")[2].partition("]")[0]
BracketedHost(netloc) ==
  SplitFirst(SubSeq(netloc, FirstOf(netloc, {"["}) + 1, Len(netloc)), "]")
\* _check_bracketed_host does not raise
BracketedHostOk(h) ==
  IF StartsWith(h, <<"v">>) THEN IsIPvFuture(h) ELSE IsIPv6(h)
\* urlsplit raises ValueError: a "[" without "]" or a "]" without "[" in the
\* network location, or a bracketed host that is no IPv6 or IPvFuture
\* address.  (_checknetloc raises for no character of the model.)
UrlRaises(url) ==
  \E n \in {UrlNetloc(url)} :
     \/ ("[" \in Range(n)) # ("]" \in Range(n))
     \/ "[" \in Range(n) /\ "]" \in Range(n) /\ ~ BracketedHostOk(BracketedHost(n))
\* urlparse(url, scheme) where it does not raise
urlparse(url, scheme) ==
  CHOOSE r \in
    { [scheme |-> sp[1], netloc |-> UrlNetloc(url), path |-> sp[2][1],
       params |-> sp[2][2], query |-> UrlQuery(url), fragment |-> UrlFragment(url)]
      : sp \in
          { <<s, IF s \in UsesParams /\ ";" \in Range(p) THEN SplitParams(p)
                 ELSE <<p, <<>>>> >>
            : <<s, p>> \in {<<IF SchemeEnd(url) > 0 THEN UrlScheme(url) ELSE scheme,
                              UrlPath(url)>>} } } : TRUE
\* urlunparse
urlunparse(p) ==
  CHOOSE r \in
    { (IF p.scheme # <<>> THEN p.scheme \o <<":">> ELSE <<>>)
        \o (IF p.netloc # <<>>
               \/ (p.scheme # <<>> /\ p.scheme \in UsesNetloc
                   /\ ~ StartsWith(url, <<"/", "/">>))
            THEN <<"/", "/">> \o p.netloc
                   \o (IF url # <<>> /\ url[1] # "/" THEN <<"/">> ELSE <<>>) \o url
            ELSE url)
        \o (IF p.query # <<>> THEN <<"?">> \o p.query ELSE <<>>)
        \o (IF p.fragment # <<>> THEN <<"#">> \o p.fragment ELSE <<>>)
      : url \in {IF p.params # <<>> THEN p.path \o <<";">> \o p.params ELSE p.path} }
    : TRUE
\* the segments of the base path a relative path is resolved against: all
\* but the last, which is kept only if it is empty
BaseParts(bpath) ==
  CHOOSE r \in
    { IF ps[Len(ps)] # <<>> THEN SubSeq(ps, 1, Len(ps) - 1) ELSE ps
      : ps \in {Split(bpath, "/")} } : TRUE
\* segments[1:-1] = filter(None, segments[1:-1])
DropEmptyInner(segs) ==
  IF Len(segs) <= 2 THEN segs
  ELSE <<segs[1]>> \o SelectSeq(SubSeq(segs, 2, Len(segs) - 1), LAMBDA s : s # <<>>)
         \o <<segs[Len(segs)]>>
\* the loop over the segments: ".." removes the segment before it, "." is
\* skipped
RECURSIVE ResolveSegments(_, _)
ResolveSegments(segs, resolved) ==
  IF segs = <<>> THEN resolved
  ELSE IF Head(segs) = <<".", ".">>
       THEN ResolveSegments(Tail(segs),
              IF resolved = <<>> THEN resolved
              ELSE SubSeq(resolved, 1, Len(resolved) - 1))
  ELSE IF Head(segs) = <<".">> THEN ResolveSegments(Tail(segs), resolved)
  ELSE ResolveSegments(Tail(segs), Append(resolved, Head(segs)))
\* the path urljoin gives a relative reference with a path or parameters
ResolvedPath(bpath, path) ==
  CHOOSE r \in
    { IF joined = <<>> THEN <<"/">> ELSE joined
      : joined \in
          { Join(ResolveSegments(segs, <<>>)
                   \o (IF segs[Len(segs)] \in {<<".">>, <<".", ".">>}
                       THEN <<<<>>>> ELSE <<>>), "/")
            : segs \in {IF StartsWith(path, <<"/">>) THEN Split(path, "/")
                        ELSE DropEmptyInner(BaseParts(bpath) \o Split(path, "/"))} } }
    : TRUE
\* urljoin once both URLs are parsed: b is the base, u the reference parsed
\* with the scheme of the base as its default
JoinParsed(b, u, url) ==
  IF u.scheme # b.scheme \/ u.scheme \notin UsesRelative THEN url
  ELSE IF u.scheme \in UsesNetloc /\ u.netloc # <<>> THEN urlunparse(u)
  ELSE CHOOSE r \in
    { IF u.path = <<>> /\ u.params = <<>>
      THEN urlunparse([scheme |-> u.scheme, netloc |-> netloc, path |-> b.path,
                       params |-> b.params,
                       query |-> IF u.query = <<>> THEN b.query ELSE u.query,
                       fragment |-> u.fragment])
      ELSE urlunparse([scheme |-> u.scheme, netloc |-> netloc,
                       path |-> ResolvedPath(b.path, u.path),
                       params |-> u.params, query |-> u.query,
                       fragment |-> u.fragment])
      : netloc \in {IF u.scheme \in UsesNetloc THEN b.netloc ELSE u.netloc} } : TRUE
\* urljoin(base, url); RAISE when urlparse raises for one of them
urljoin(base, url) ==
  IF base = <<>> THEN url
  ELSE IF url = <<>> THEN base
  ELSE IF UrlRaises(base) \/ UrlRaises(url) THEN RAISE
  ELSE CHOOSE r \in
    UNION { { JoinParsed(b, u, url) : u \in {urlparse(url, b.scheme)} }
            : b \in {urlparse(base, <<>>)} } : TRUE

(* ------------------------------------------------------------------ *)
(* HELPERS (crawl.py 73-175)                                           *)
(* ------------------------------------------------------------------ *)
\* lines 76-83; RAISE when urlparse (line 76) raises ValueError
is_valid_url(url) ==
  IF UrlRaises(url) THEN RAISE
  ELSE
    /\ UrlNetloc(url) \in ALLOWED_DOMAINS
    /\ \A low \in {Lower(url)} :
          ~ \E n \in {Len(ext) : ext \in SKIP_EXTENSIONS} :
              n <= Len(low) /\ SubSeq(low, Len(low) - n + 1, Len(low)) \in SKIP_EXTENSIONS
    /\ ~ ( Contains(url, <<"#">>) \/ Contains(url, JAVASCRIPT)
           \/ Contains(url, MAILTO) \/ Contains(url, TEL) )

clean_filename(url) ==
  CHOOSE r \in
    { SubSeq(n2, 1, IF Len(n2) < NAME_LIMIT THEN Len(n2) ELSE NAME_LIMIT) \o TXT
      : n2 \in { SelectSeq(
                   Replace(Replace(Replace(url, HTTPS, <<>>), HTTP, <<>>),
                           <<"/">>, <<"_">>),
                   LAMBDA c : IsAlnum(c) \/ c \in {"_", "-"}) } } : TRUE

(* A page, as BeautifulSoup presents it to crawl.py: the text of its     *)
(* <title>, the lines of soup.get_text("\n") after the structural and    *)
(* class/id noise has been removed, and the href of every <a href=...>   *)
(* in document order.  The empty string is the page without any of them. *)
EmptyHtml == [title |-> <<>>, lines |-> <<>>, hrefs |-> <<>>]
extract_page_title(html) == Strip(html.title)

junk_labels ==
  { <<"A","p","p","l","y"," ","N","o","w">>,
    <<"R","e","a","d"," ","M","o","r","e">>,
    <<"L","e","a","r","n"," ","M","o","r","e">>,
    <<"C","l","i","c","k"," ","H","e","r","e">>,
    <<"S","k","i","p"," ","t","o"," ","m","a","i","n">>,
    <<"S","e","a","r","c","h"," ","f","o","r","m">>,
    <<"T","o","g","g","l","e"," ","n","a","v","i","g","a","t","i","o","n">>,
    <<"B","a","c","k"," ","t","o"," ","t","o","p">>,
    <<"F","o","l","l","o","w"," ","u","s">>,
    <<"S","h","a","r","e"," ","t","h","i","s">> }

LowerJunk == {Lower(l) : l \in junk_labels}
\* DropLine without the "line in seen" test of lines 139-140
DropLineNoSeen(line, seen) ==
  \/ line = <<>>
  \/ Len(line) < 10
  \/ Lower(line) \in LowerJunk
  \/ \A c \in Range(line) : IsNonWord(c)
\* the conditions of lines 137-154 under which a stripped line is dropped
DropLine(line, seen) ==
  \/ line = <<>>
  \/ line \in seen
  \/ Len(line) < 10
  \/ Lower(line) \in LowerJunk
  \/ \A c \in Range(line) : IsNonWord(c)
RECURSIVE FilterLines(_, _, _)
FilterLines(lines, seen, clean_lines) ==
  IF lines = <<>> THEN clean_lines
  ELSE CHOOSE r \in
    { IF DropLine(line, seen)
      THEN FilterLines(Tail(lines), seen, clean_lines)
      ELSE FilterLines(Tail(lines), seen \cup {line}, Append(clean_lines, line))
      : line \in {Strip(Head(lines))} } : TRUE
\* "\n".join
RECURSIVE JoinLines(_)
JoinLines(ls) ==
  IF ls = <<>> THEN <<>>
  ELSE IF Len(ls) = 1 THEN ls[1]
  ELSE ls[1] \o <<"\n">> \o JoinLines(Tail(ls))
extract_clean_content(html) ==
  IF html = EmptyHtml THEN <<>> ELSE JoinLines(FilterLines(html.lines, {}, <<>>))

\* lines 169-171: drop from the first "#", trim, strip one trailing slash
NormalizeLink(joined) ==
  CHOOSE r \in
    { IF EndsWith(full, <<"/">>) THEN SubSeq(full, 1, Len(full) - 1) ELSE full
      : full \in {Strip(SplitFirst(joined, "#"))} } : TRUE
\* LinksFrom without the is_valid_url test of line 172
RECURSIVE LinksFromNoValidation(_, _, _)
LinksFromNoValidation(hrefs, base_url, found) ==
  IF hrefs = <<>> THEN found
  ELSE CHOOSE r \in
    { IF joined = RAISE THEN RAISE
      ELSE CHOOSE r2 \in
        { IF full # <<>> /\ full \notin Range(found)
          THEN LinksFromNoValidation(Tail(hrefs), base_url, Append(found, full))
          ELSE LinksFromNoValidation(Tail(hrefs), base_url, found)
          : full \in {NormalizeLink(joined)} } : TRUE
      : joined \in {urljoin(base_url, Head(hrefs))} } : TRUE
\* the loop of lines 167-174; RAISE when urljoin (line 169) or is_valid_url
\* (line 172) raises.  found holds what the set seen holds.
RECURSIVE LinksFrom(_, _, _)
LinksFrom(hrefs, base_url, found) ==
  IF hrefs = <<>> THEN found
  ELSE CHOOSE r \in
    { IF joined = RAISE THEN RAISE
      ELSE CHOOSE r2 \in
        { IF full = <<>> \/ full \in Range(found)
          THEN LinksFrom(Tail(hrefs), base_url, found)
          ELSE IF UrlRaises(full) THEN RAISE
          ELSE IF is_valid_url(full)
               THEN LinksFrom(Tail(hrefs), base_url, Append(found, full))
               ELSE LinksFrom(Tail(hrefs), base_url, found)
          : full \in {NormalizeLink(joined)} } : TRUE
      : joined \in {urljoin(base_url, Head(hrefs))} } : TRUE
extract_links(html, base_url) == LinksFrom(html.hrefs, base_url, <<>>)

(* ------------------------------------------------------------------ *)
(* STATE PERSISTENCE (crawl.py 181-192)                                *)
(* ------------------------------------------------------------------ *)
\* the state file does not exist
NoFile == [exists |-> FALSE]
\* the content json.dump writes: the visited set and the queue in order
save_state(v, q) == [exists |-> TRUE, visited |-> v, queue |-> q]
load_state(f) ==
  IF f.exists THEN [visited |-> f.visited, queue |-> f.queue]
  ELSE [visited |-> {}, queue |-> <<>>]
\* the state file between open(STATE_FILE, "w"), which truncates it, and the
\* end of json.dump: empty, or a proper prefix of the JSON text
PartialFiles == {[exists |-> TRUE, partial |-> p] : p \in {"empty", "prefix"}}
\* json.load raises JSONDecodeError on such a file (line 185)
LoadRaises(f) == f \in PartialFiles

(* ------------------------------------------------------------------ *)
(* The site: what crawler.arun can return for a URL                    *)
(* ------------------------------------------------------------------ *)
\* 150 characters of cleaned text; links to /about/, to itself and to the root
PageShort ==
  [title |-> <<"H","o","m","e">>,
   lines |-> << Rep("a", 100), <<"R","e","a","d"," ","M","o","r","e">>, <<" ">> \o Rep("b", 49) \o <<" ">> >>,
   hrefs |-> << <<"/","a","b","o","u","t","/">>, <<"#","t","o","p">>, <<"/">> >>]
\* 151 characters of cleaned text; a repeated line and a line of symbols;
\* PageLong links to the start page under the http scheme as well
LongLines == << Rep("a", 100), Rep("a", 100), Rep("-", 12), <<>>, Rep("b", 50) >>
PageLong ==
  [title |-> <<" ","A","b","o","u","t"," ">>,
   lines |-> LongLines,
   hrefs |-> << <<"h","t","t","p",":","/","/","w","w","w",".","b","r","a","c","u",".","a","c",".","b","d","/">>, <<"/","a","b","o","u","t","/","/">>, <<"h","t","t","p","s",":","/","/","e","v","i","l",".","c","o","m","/","a">>, <<"/","a",".","p","d","f">>, <<"/","a","b","o","u","t","/","#","t","e","a","m">> >>]
\* 151 characters of cleaned text and an href urljoin cannot parse
PageBad ==
  [title |-> <<" ","A","b","o","u","t"," ">>,
   lines |-> LongLines,
   hrefs |-> << <<"/","a","b","o","u","t">>, <<"h","t","t","p",":","/","/","[">> >>]
Pages == {EmptyHtml, PageShort, PageLong, PageBad}
\* lines 256-257 for each page: the title and the cleaned text depend on
\* the page alone
TitleOf == [p \in Pages |-> extract_page_title(p)]
CleanOf == [p \in Pages |-> extract_clean_content(p)]

\* a checkpoint left on disk by an earlier crawl: visited = {A}, queue = [B, C]
CkptA == <<"h","t","t","p","s",":","/","/","w","w","w",".","b","r","a","c","u",".","a","c",".","b","d","/","a","b","o","u","t">>
CkptB == <<"h","t","t","p","s",":","/","/","w","w","w",".","b","r","a","c","u",".","a","c",".","b","d","/","n","e","w","s">>
CkptC == <<"h","t","t","p","s",":","/","/","w","w","w",".","b","r","a","c","u",".","a","c",".","b","d","/","e","v","e","n","t","s">>
\* the seed paths the model crawls, and their URLs (lines 210-212)
SEEDS == SubSeq(SEED_PATHS, 1, NumSeeds)
SeedUrl(path) == RStrip(RStrip(START_URL, "/") \o path, "/")
SeedUrls == {SeedUrl(SEEDS[i]) : i \in DOMAIN SEEDS}
\* the checkpoint of a crawl that stopped before its first fetch, and of a
\* crawl whose seeds all failed
CkptSeeded == save_state({}, [i \in DOMAIN SEEDS |-> SeedUrl(SEEDS[i])])
CkptExhausted == save_state(SeedUrls, <<>>)
InitialFiles ==
  {NoFile, save_state({CkptA}, <<CkptB, CkptC>>), CkptSeeded, CkptExhausted}

(* ------------------------------------------------------------------ *)
(* State                                                               *)
(* ------------------------------------------------------------------ *)
VARIABLES
  file,         \* content of STATE_FILE
  outdir,       \* OUTPUT_DIR: file name -> content written
  run,          \* number of the current run of main()
  pc,           \* position of main(): idle, loop, attempt, after, done;
                \* killed (the process was stopped), crashed (main() raised)
  resume, max_pages,         \* arguments of main()
  visited, queue, count,     \* locals of main()
  current_url, attempt, success,
  loaded,       \* the frontier main() started from (lines 202-207)
  dequeued,     \* the URLs popped from the queue in this run, in order
  fetchLog,     \* the URLs a round of fetch attempts was started for
  outcome,      \* how the last attempt ended: load_failed, exception, ok
  clean_len,    \* len(clean_text) of the last loaded page
  wrote,        \* the last attempt wrote an output file
  writes,       \* output files written for current_url in this round
  new_links, added,          \* locals of the link discovery (272-277)
  queue0,       \* the queue right after current_url was popped
  iterKind,     \* the last loop iteration: none, skip (continue) or fetch
  iterSaved,    \* the last loop iteration called save_state (line 295)
  finalSaved,   \* the final save_state of line 301 was called
  saved,        \* the URLs of this run whose fetch succeeded and wrote a file
  waits,        \* politeness sleeps in this run (line 298)
  backoffs,     \* the backoff sleeps of this round, in seconds (252, 286)
  enqueued,     \* the URLs appended to the queue in this run, in order
  call          \* a helper called on its own: its name, argument and result

disk == <<file, outdir>>
args == <<resume, max_pages, loaded>>
frontier == <<visited, queue>>
round == <<outcome, clean_len, wrote, writes, new_links, added, queue0>>
logs == <<dequeued, fetchLog>>
iter == <<iterKind, iterSaved>>
hist == <<saved, waits, backoffs, enqueued>>
vars == <<file, outdir, run, pc, resume, max_pages, visited, queue, count,
          current_url, attempt, success, loaded, dequeued, fetchLog, outcome,
          clean_len, wrote, writes, new_links, added, queue0, iterKind,
          iterSaved, finalSaved, saved, waits, backoffs, enqueued,
          call>>

\* the values of the locals before main() is called
Fresh ==
  /\ pc = "idle"
  /\ resume = FALSE /\ max_pages = 0
  /\ visited = {} /\ queue = <<>> /\ count = 0
  /\ current_url = <<>> /\ attempt = 0 /\ success = FALSE
  /\ loaded = [visited |-> {}, queue |-> <<>>]
  /\ dequeued = <<>> /\ fetchLog = <<>>
  /\ outcome = "none" /\ clean_len = 0 /\ wrote = FALSE /\ writes = 0
  /\ new_links = <<>> /\ added = 0 /\ queue0 = <<>>
  /\ iterKind = "none" /\ iterSaved = FALSE /\ finalSaved = FALSE
  /\ saved = {} /\ waits = 0 /\ backoffs = <<>> /\ enqueued = <<>>

\* no helper is called on its own during a crawl
NoCall == [fn |-> "none"]

Init ==
  /\ file \in InitialFiles
  /\ outdir = <<>>
  /\ run = 1
  /\ Fresh
  /\ call = NoCall

(* ------------------------------------------------------------------ *)
(* MAIN CRAWLER (crawl.py 198-302)                                     *)
(* ------------------------------------------------------------------ *)
\* Seed without the "url not in queue" test of line 213
RECURSIVE SeedNoQueueTest(_, _, _)
SeedNoQueueTest(paths, v, q) ==
  IF paths = <<>> THEN q
  ELSE LET url == RStrip(RStrip(START_URL, "/") \o Head(paths), "/")
       IN SeedNoQueueTest(Tail(paths), v, IF url \notin v THEN Append(q, url) ELSE q)
\* Seed putting the seed URLs ahead of the restored queue
RECURSIVE SeedAhead(_, _, _)
SeedAhead(paths, v, q) ==
  IF paths = <<>> THEN q
  ELSE LET url == RStrip(RStrip(START_URL, "/") \o Head(paths), "/")
           rest == SeedAhead(Tail(paths), v, q)
       IN IF url \notin v /\ url \notin Range(rest) THEN <<url>> \o rest ELSE rest
\* lines 210-214: the seed URLs not yet visited or queued go to the end
RECURSIVE Seed(_, _, _)
Seed(paths, v, q) ==
  IF paths = <<>> THEN q
  ELSE LET url == RStrip(RStrip(START_URL, "/") \o Head(paths), "/")
       IN Seed(Tail(paths), v,
               IF url \notin v /\ url \notin Range(q) THEN Append(q, url) ELSE q)
\* NothingToCrawl returning early for a queue of one URL as well
NothingToCrawlOffByOne(q) == Len(q) <= 1
\* line 216
NothingToCrawl(q) == q = <<>>
\* LoopCond with "<=" for "<"
LoopCondInclusive(q, c, n) == q # <<>> /\ c <= n
\* line 236
LoopCond(q, c, n) == q # <<>> /\ c < n
\* lines 238-239
StripSlash(url) ==
  IF EndsWith(url, <<"/">>) THEN SubSeq(url, 1, Len(url) - 1) ELSE url
\* line 240
AlreadyVisited(url, v) == url \in v
\* ShouldWrite with ">=" for ">"
ShouldWriteInclusive(clean_text) == Len(clean_text) >= MIN_CONTENT
\* line 259
ShouldWrite(clean_text) == Len(clean_text) > MIN_CONTENT
\* EnqueueLinks without the "link not in visited" test of line 275
RECURSIVE EnqueueLinksNoVisitedTest(_, _, _)
EnqueueLinksNoVisitedTest(links, v, q) ==
  IF links = <<>> THEN q
  ELSE EnqueueLinksNoVisitedTest(Tail(links), v,
         IF Head(links) \notin Range(q) THEN Append(q, Head(links)) ELSE q)
\* lines 274-277
RECURSIVE EnqueueLinks(_, _, _)
EnqueueLinks(links, v, q) ==
  IF links = <<>> THEN q
  ELSE EnqueueLinks(Tail(links), v,
         IF Head(links) \notin v /\ Head(links) \notin Range(q)
         THEN Append(q, Head(links)) ELSE q)
\* lines 290-291
CountAfter(ok, c) == IF ok THEN c + 1 ELSE c
\* line 294
PeriodicSave(c) == c % SAVE_EVERY = 0
\* lines 262-265: the file written for a page
WriteDoc(dir, url, title, clean_text) ==
  LET name == clean_filename(url)
      doc == [source_url |-> url, title |-> title, text |-> clean_text]
  IN [f \in DOMAIN dir \cup {name} |-> IF f = name THEN doc ELSE dir[f]]

\* queue.pop() for queue.pop(0): the last URL is taken
PopLast(q) == [url |-> q[Len(q)], rest |-> SubSeq(q, 1, Len(q) - 1)]
\* line 237: queue.pop(0) returns the first URL and removes it
Pop(q) == [url |-> Head(q), rest |-> Tail(q)]
\* lines 252, 286: the sleep after failed attempt k, in seconds
Backoff(k) == k * 2
\* a politeness sleep for every attempt of the round
PolitenessPerAttempt(w) == w + attempt
\* line 298: one politeness sleep
Politeness(w) == w + 1

\* main() is called: lines 199-221
StartRun(r, n) ==
  /\ pc = "idle"
  /\ ~ (r /\ LoadRaises(file))
  /\ LET st == IF r THEN load_state(file) ELSE [visited |-> {}, queue |-> <<>>]
         q1 == Seed(SEEDS, st.visited, st.queue)
     IN /\ resume' = r /\ max_pages' = n /\ loaded' = st
        /\ visited' = st.visited /\ queue' = q1
        /\ enqueued' = q1
        /\ pc' = IF NothingToCrawl(q1) THEN "done" ELSE "loop"
  /\ UNCHANGED <<disk, run, count, current_url, attempt, success, round, logs,
                 iter, finalSaved, saved, waits, backoffs, call>>

\* lines 236-241: the popped URL is already visited (continue)
DequeueSkip ==
  /\ pc = "loop" /\ LoopCond(queue, count, max_pages)
  /\ AlreadyVisited(StripSlash(Pop(queue).url), visited)
  /\ current_url' = StripSlash(Pop(queue).url)
  /\ queue' = Pop(queue).rest
  /\ dequeued' = Append(dequeued, Pop(queue).url)
  /\ iterKind' = "skip" /\ iterSaved' = FALSE
  /\ UNCHANGED <<disk, run, pc, args, visited, count, attempt, success, round,
                 fetchLog, finalSaved, hist, call>>

\* lines 236-246: the popped URL is fetched
DequeueFetch ==
  /\ pc = "loop" /\ LoopCond(queue, count, max_pages)
  /\ ~ AlreadyVisited(StripSlash(Pop(queue).url), visited)
  /\ current_url' = StripSlash(Pop(queue).url)
  /\ queue' = Pop(queue).rest /\ queue0' = Pop(queue).rest
  /\ dequeued' = Append(dequeued, Pop(queue).url)
  /\ fetchLog' = Append(fetchLog, StripSlash(Pop(queue).url))
  /\ success' = FALSE /\ attempt' = 1 /\ pc' = "attempt"
  /\ UNCHANGED <<disk, run, args, visited, count, iter, finalSaved, outcome,
                 clean_len, wrote, writes, new_links, added, hist, call>>

\* a failed attempt that is always followed by another one
NextAttemptForever ==
  /\ backoffs' = <<Backoff(attempt)>>
  /\ attempt' = attempt /\ pc' = "attempt"
\* lines 250-253, 284-286 and the for loop of line 246 after a failed
\* attempt: sleep attempt * 2 seconds, then retry or give up
NextAttempt ==
  /\ backoffs' = Append(backoffs, Backoff(attempt))
  /\ IF attempt < MAX_RETRIES
     THEN attempt' = attempt + 1 /\ pc' = "attempt"
     ELSE attempt' = attempt /\ pc' = "after"

\* lines 248-253: the page load reports no success
AttemptLoadFailed ==
  /\ pc = "attempt"
  /\ outcome' = "load_failed" /\ wrote' = FALSE
  /\ NextAttempt
  /\ UNCHANGED <<disk, run, args, frontier, count, current_url, success,
                 clean_len, writes, new_links, added, queue0, logs, iter,
                 finalSaved, saved, waits, enqueued, call>>

\* lines 248, 284-286: crawler.arun raises
AttemptArunRaises ==
  /\ pc = "attempt"
  /\ outcome' = "exception" /\ wrote' = FALSE
  /\ NextAttempt
  /\ UNCHANGED <<disk, run, args, frontier, count, current_url, success,
                 clean_len, writes, new_links, added, queue0, logs, iter,
                 finalSaved, saved, waits, enqueued, call>>

\* lines 248-286: the page is loaded; extraction, writing and link discovery
AttemptLoaded(html) ==
  /\ pc = "attempt"
  /\ \E title \in {TitleOf[html]},
        clean_text \in {CleanOf[html]},
        links \in {IF html # EmptyHtml THEN extract_links(html, current_url) ELSE <<>>} :
        /\ clean_len' = Len(clean_text)
        /\ wrote' = ShouldWrite(clean_text)
        /\ IF ShouldWrite(clean_text)
           THEN /\ outdir' = WriteDoc(outdir, current_url, title, clean_text)
                /\ writes' = writes + 1
           ELSE UNCHANGED <<outdir, writes>>
        /\ IF links = RAISE
           THEN \* extract_links raised after the file was written
                /\ outcome' = "exception"
                /\ NextAttempt
                /\ UNCHANGED <<queue, new_links, added, success, saved, enqueued>>
           ELSE /\ outcome' = "ok"
                /\ new_links' = links
                /\ \E q1 \in {EnqueueLinks(links, visited, queue)} :
                      /\ queue' = q1 /\ added' = Len(q1) - Len(queue)
                      /\ enqueued' = enqueued \o SubSeq(q1, Len(queue) + 1, Len(q1))
                /\ saved' = IF ShouldWrite(clean_text) THEN saved \cup {current_url}
                            ELSE saved
                /\ success' = TRUE
                /\ attempt' = attempt /\ pc' = "after"
                /\ UNCHANGED backoffs
  /\ UNCHANGED <<file, run, args, visited, count, current_url, queue0, logs,
                 iter, finalSaved, waits, call>>

\* lines 288-298: mark visited, count, periodic save, politeness delay
EndIteration ==
  /\ pc = "after"
  /\ visited' = visited \cup {current_url}
  /\ count' = CountAfter(success, count)
  /\ IF PeriodicSave(CountAfter(success, count))
     THEN file' = save_state(visited \cup {current_url}, queue) /\ iterSaved' = TRUE
     ELSE file' = file /\ iterSaved' = FALSE
  /\ waits' = Politeness(waits)
  /\ iterKind' = "fetch"
  /\ pc' = "loop"
  \* the observations of the round end with it; attempt is dead until line 246
  /\ outcome' = "none" /\ clean_len' = 0 /\ wrote' = FALSE /\ writes' = 0
  /\ new_links' = <<>> /\ added' = 0 /\ queue0' = <<>> /\ attempt' = 0
  /\ backoffs' = <<>>
  /\ UNCHANGED <<outdir, run, args, queue, current_url, success, logs,
                 finalSaved, saved, enqueued, call>>

\* lines 236, 300-302: the loop ends and the final state is saved
LoopExit ==
  /\ pc = "loop" /\ ~ LoopCond(queue, count, max_pages)
  /\ file' = save_state(visited, queue)
  /\ finalSaved' = TRUE
  /\ pc' = "done"
  /\ UNCHANGED <<outdir, run, args, frontier, count, current_url, attempt,
                 success, round, logs, iter, hist, call>>

\* the process is stopped inside save_state (line 295 or line 301), after
\* open() has truncated the file and before json.dump has written all of it
KillInSave(p) ==
  /\ \/ pc = "after" /\ PeriodicSave(CountAfter(success, count))
     \/ pc = "loop" /\ ~ LoopCond(queue, count, max_pages)
  /\ file' = [exists |-> TRUE, partial |-> p]
  /\ pc' = "killed"
  /\ UNCHANGED <<outdir, run, args, frontier, count, current_url, attempt,
                 success, round, logs, iter, finalSaved, hist, call>>

\* lines 202-204, 184-185: a resumed run loads a file json.load cannot
\* parse; the JSONDecodeError is not caught and main() ends with it
StartRunCorrupt ==
  /\ pc = "idle"
  /\ LoadRaises(file)
  /\ resume' = TRUE
  /\ pc' = "crashed"
  /\ UNCHANGED <<disk, run, max_pages, loaded, frontier, count, current_url,
                 attempt, success, round, logs, iter, finalSaved, hist, call>>

\* the process has ended; the crawler is started again
NextRun ==
  /\ pc \in {"done", "killed", "crashed"} /\ run < MaxRuns
  /\ run' = run + 1
  /\ pc' = "idle"
  /\ resume' = FALSE /\ max_pages' = 0
  /\ visited' = {} /\ queue' = <<>> /\ count' = 0
  /\ current_url' = <<>> /\ attempt' = 0 /\ success' = FALSE
  /\ loaded' = [visited |-> {}, queue |-> <<>>]
  /\ dequeued' = <<>> /\ fetchLog' = <<>>
  /\ outcome' = "none" /\ clean_len' = 0 /\ wrote' = FALSE /\ writes' = 0
  /\ new_links' = <<>> /\ added' = 0 /\ queue0' = <<>>
  /\ iterKind' = "none" /\ iterSaved' = FALSE /\ finalSaved' = FALSE
  /\ saved' = {} /\ waits' = 0 /\ backoffs' = <<>> /\ enqueued' = <<>>
  /\ UNCHANGED <<disk, call>>

Next ==
  \/ \E r \in BOOLEAN, n \in 0..MaxBudget : StartRun(r, n)
  \/ DequeueSkip
  \/ DequeueFetch
  \/ AttemptLoadFailed
  \/ AttemptArunRaises
  \/ \E html \in Pages : AttemptLoaded(html)
  \/ EndIteration
  \/ LoopExit

Spec == Init /\ [][Next]_vars

\* a step of main() once it has been called.  main() is a single coroutine
\* run by asyncio.run (line 316): when the call or sleep it awaits returns,
\* it goes on, so a run that can take a step eventually takes one.
RunStep ==
  \/ DequeueSkip
  \/ DequeueFetch
  \/ AttemptLoadFailed
  \/ AttemptArunRaises
  \/ \E html \in Pages : AttemptLoaded(html)
  \/ EndIteration
  \/ LoopExit

FairSpec == Spec /\ WF_vars(RunStep)

\* the crawler stopped and started again, as --resume is meant for
NextRestart ==
  \/ Next
  \/ \E p \in {"empty", "prefix"} : KillInSave(p)
  \/ StartRunCorrupt
  \/ NextRun

SpecRestart == Init /\ [][NextRestart]_vars

(* ------------------------------------------------------------------ *)
(* The helpers called on their own (crawl.py 73-175)                   *)
(* ------------------------------------------------------------------ *)
\* the longest list of hrefs and of text lines a page is given here
MaxHrefs == 2
MaxLines == 3
SeqsUpTo(S, n) == UNION {[1..k -> S] : k \in 0..n}

\* URLs for is_valid_url: a scheme and host, a path, an extension and what
\* may follow the path; and strings that are no http URLs, that start with
\* a blank or that have a bracketed host
UrlHosts ==
  { <<"h","t","t","p","s",":","/","/","w","w","w",".","b","r","a","c","u",".","a","c",".","b","d">>,
    <<"h","t","t","p",":","/","/","w","w","w",".","b","r","a","c","u",".","a","c",".","b","d">>,
    <<"h","t","t","p","s",":","/","/","b","r","a","c","u",".","a","c",".","b","d">>,
    <<"h","t","t","p","s",":","/","/","e","v","i","l",".","c","o","m">>,
    <<"h","t","t","p","s",":","/","/","w","w","w",".","b","r","a","c","u",".","a","c",".","b","d",".","e","v","i","l",".","c","o","m">> }
UrlPaths ==
  { <<>>,
    <<"/","d","o","c">>,
    <<"/","a","/","b">>,
    <<"/","h","o","t","e","l",":","5">> }
UrlExts ==
  { <<>>,
    <<".","p","d","f">>,
    <<".","P","D","F">>,
    <<".","j","p","g">>,
    <<".","h","t","m","l">> }
UrlTails ==
  { <<>>,
    <<"?","x","=","1">>,
    <<"#","t","o","p">>,
    <<"?","f","=","a",".","z","i","p">>,
    <<"/">> }
UrlOthers ==
  { <<"m","a","i","l","t","o",":","i","n","f","o","@","b","r","a","c","u",".","a","c",".","b","d">>,
    <<"j","a","v","a","s","c","r","i","p","t",":","v","o","i","d","(","0",")">>,
    <<"t","e","l",":","+","8","8","0","1">>,
    <<"/","a","b","o","u","t">>,
    <<" ","h","t","t","p","s",":","/","/","w","w","w",".","b","r","a","c","u",".","a","c",".","b","d","/","x">>,
    <<"h","t","t","p",":","/","/","[">>,
    <<"h","t","t","p",":","/","/","[","a","b","c","]">>,
    <<"h","t","t","p",":","/","/","[",":",":","1","]","/","a",".","p","d","f">>,
    <<"h","t","t","p","s",":","/","/","w","w","w",".","b","r","a","c","u",".","a","c",".","b","d","/","c","a","f","é",".","P","D","F">>,
    <<>> }
UrlInputs ==
  {h \o q \o e \o t : h \in UrlHosts, q \in UrlPaths, e \in UrlExts, t \in UrlTails}
    \cup UrlOthers
\* pages for extract_links: the hrefs of the anchors, and the base URL
HrefPool ==
  { <<"/","a","b","o","u","t","/">>,
    <<"/","a","b","o","u","t">>,
    <<"/","a","b","o","u","t","/","/">>,
    <<"#","t","o","p">>,
    <<"/","a",".","p","d","f">>,
    <<"h","t","t","p","s",":","/","/","e","v","i","l",".","c","o","m","/","a">>,
    <<"/","a","b","o","u","t","/","#","t","e","a","m">>,
    <<"/","n","e","w","s"," ">>,
    <<" ","/","n","e","w","s">>,
    <<"t","e","a","m">>,
    <<"h","t","t","p",":","/","/","[">>,
    <<"h","t","t","p",":","/","/","[","a","b","c","]">>,
    <<"m","a","i","l","t","o",":","i","n","f","o","@","b","r","a","c","u",".","a","c",".","b","d">> }
BaseUrls ==
  { <<"h","t","t","p","s",":","/","/","w","w","w",".","b","r","a","c","u",".","a","c",".","b","d">>,
    <<"h","t","t","p","s",":","/","/","w","w","w",".","b","r","a","c","u",".","a","c",".","b","d","/","a","b","o","u","t">>,
    <<"h","t","t","p","s",":","/","/","w","w","w",".","b","r","a","c","u",".","a","c",".","b","d","/","a","b","o","u","t","/","/">> }
\* text lines for extract_clean_content
LinePool ==
  { <<"W","e","l","c","o","m","e"," ","t","o"," ","B","R","A","C">>,
    <<" "," ","W","e","l","c","o","m","e"," ","t","o"," ","B","R","A","C"," ">>,
    <<"R","E","A","D"," ","M","O","R","E">>,
    <<"l","e","a","r","n"," ","m","o","r","e">>,
    <<"L","e","a","r","n"," ","M","o","r","e","!">>,
    <<"-","-","-","-","-","-","-","-","-","-">>,
    <<"_","_","_","_","_","_","_","_","_","_">>,
    <<"t","o","o"," ","s","h","o","r","t">>,
    <<"A","p","p","l","y"," ","N","o","w","!">>,
    <<"é","é","é","é","é","é","é","é","é","é","é">>,
    <<"আ","ম","া","ম","া","ম","া","ম","া","ম","া">>,
    <<>> }

\* a helper is about to be called with one of these arguments
InitFn ==
  /\ file = NoFile
  /\ outdir = <<>>
  /\ run = 1
  /\ Fresh
  /\ \/ \E u \in UrlInputs :
          call = [fn |-> "input", of |-> "is_valid_url", arg |-> u]
     \/ \E hs \in SeqsUpTo(HrefPool, MaxHrefs) \ {<<>>}, b \in BaseUrls :
          call = [fn |-> "input", of |-> "extract_links",
                  arg |-> [html |-> [title |-> <<>>, lines |-> <<>>, hrefs |-> hs],
                           base_url |-> b]]
     \/ \E ls \in SeqsUpTo(LinePool, MaxLines) :
          call = [fn |-> "input", of |-> "extract_clean_content",
                  arg |-> [title |-> <<>>, lines |-> ls, hrefs |-> <<>>]]

\* lines 73-83
CallIsValidUrl ==
  /\ call.fn = "input" /\ call.of = "is_valid_url"
  /\ call' = [fn |-> "is_valid_url", arg |-> call.arg,
              res |-> is_valid_url(call.arg)]
  /\ UNCHANGED <<disk, run, pc, args, frontier, count, current_url, attempt,
                 success, round, logs, iter, finalSaved, hist>>

\* lines 162-175
CallExtractLinks ==
  /\ call.fn = "input" /\ call.of = "extract_links"
  /\ call' = [fn |-> "extract_links", arg |-> call.arg,
              res |-> extract_links(call.arg.html, call.arg.base_url)]
  /\ UNCHANGED <<disk, run, pc, args, frontier, count, current_url, attempt,
                 success, round, logs, iter, finalSaved, hist>>

\* lines 100-159
CallExtractCleanContent ==
  /\ call.fn = "input" /\ call.of = "extract_clean_content"
  /\ call' = [fn |-> "extract_clean_content", arg |-> call.arg,
              res |-> extract_clean_content(call.arg)]
  /\ UNCHANGED <<disk, run, pc, args, frontier, count, current_url, attempt,
                 success, round, logs, iter, finalSaved, hist>>

NextFn ==
  \/ CallIsValidUrl
  \/ CallExtractLinks
  \/ CallExtractCleanContent

SpecFn == InitFn /\ [][NextFn]_vars

(* ------------------------------------------------------------------ *)
(* Properties                                                          *)
(* ------------------------------------------------------------------ *)
Min(a, b) == IF a < b THEN a ELSE b

\* C1 (idempotent visitation): within one run visited never loses a URL, no
\* step adds an occurrence of an already visited URL to the queue, and no
\* URL gets a second round of fetch attempts.
C1_IdempotentVisitation ==
  [][ run' = run =>
        /\ visited \subseteq visited'
        /\ \A u \in visited : Occ(u, queue') <= Occ(u, queue)
        /\ NoDup(fetchLog') ]_vars
\* a page has just been loaded that links to a visited URL, which was not queued
C1_Witness ==
  /\ pc = "after" /\ success
  /\ \E i \in DOMAIN new_links :
       new_links[i] \in visited /\ new_links[i] \notin Range(queue)

\* C2 (frontier disjointness): at the head of every loop iteration, and in
\* every saved checkpoint, no URL is both visited and queued.
C2_FrontierDisjoint ==
  /\ pc = "loop" => visited \cap Range(queue) = {}
  /\ file.exists => file.visited \cap Range(file.queue) = {}

\* C3 (queue uniqueness): the queue, and the queue of every checkpoint,
\* never holds the same URL twice.
C3_QueueUnique ==
  /\ NoDup(queue)
  /\ file.exists => NoDup(file.queue)
\* a run resumed from a checkpoint found a link that was already queued
C3_Witness ==
  /\ resume /\ loaded.queue # <<>>
  /\ pc = "after" /\ success
  /\ \E i \in DOMAIN new_links : new_links[i] \in Range(queue0)

\* C4 (page budget): the count of successful fetches never exceeds
\* max_pages, no URL is popped once the count has reached max_pages, and a
\* URL whose attempts all failed leaves the count as it was.
C4_PageBudget ==
  /\ [](count <= max_pages)
  /\ [][ /\ (run' = run /\ dequeued' # dequeued) => count < max_pages
         /\ (pc = "after" /\ ~ success) => count' = count ]_vars
\* the run ended on the budget with URLs left, after some URL had failed
C4_Witness ==
  /\ pc = "done" /\ max_pages > 0 /\ count = max_pages /\ queue # <<>>
  /\ Cardinality(visited \ loaded.visited) > count

\* C5 (retry exhaustion): a URL whose attempts all failed had exactly
\* MAX_RETRIES attempts, no output file written and no link enqueued.
C5_RetryExhaustion ==
  (pc = "after" /\ ~ success) =>
     /\ attempt = MAX_RETRIES
     /\ writes = 0
     /\ queue = queue0

\* C6 (minimum length gate): a successful fetch writes its file exactly when
\* the cleaned text is longer than 150 characters; in both cases its links
\* are in the frontier and the fetch is counted.
C6_MinLengthGate ==
  /\ []( (pc = "after" /\ success) =>
           /\ wrote <=> clean_len > 150
           /\ wrote => /\ clean_filename(current_url) \in DOMAIN outdir
                       /\ outdir[clean_filename(current_url)].source_url = current_url
                       /\ Len(outdir[clean_filename(current_url)].text) = clean_len
           /\ \A i \in DOMAIN new_links : new_links[i] \in visited \cup Range(queue) )
  /\ [][ (pc = "after" /\ success) => count' = count + 1 ]_vars
\* a page of exactly 150 characters of cleaned text was fetched: nothing was
\* written for it, and its links were added to the queue
C6_Witness ==
  /\ pc = "after" /\ success /\ clean_len = 150 /\ ~ wrote /\ writes = 0
  /\ added > 0
  /\ clean_filename(current_url) \notin DOMAIN outdir

\* C7 (resume continuity): a resumed run pops the URLs of the checkpoint's
\* queue in their stored order before anything else, and never fetches a
\* URL of the checkpoint's visited set.
C7_ResumeContinuity ==
  resume =>
    /\ \A i \in 1..Min(Len(dequeued), Len(loaded.queue)) : dequeued[i] = loaded.queue[i]
    /\ \A i \in DOMAIN fetchLog : fetchLog[i] \notin loaded.visited
\* from visited = {A}, queue = [B, C]: B, C and then a seed have been popped
C7_Witness ==
  /\ resume /\ loaded.visited = {CkptA} /\ loaded.queue = <<CkptB, CkptC>>
  /\ Len(dequeued) = 3 /\ dequeued[1] = CkptB /\ dequeued[2] = CkptC
  /\ dequeued[3] \in SeedUrls \ Range(loaded.queue)

\* C8 (periodic checkpoint cadence): a loop iteration ends with save_state
\* exactly when its fetch succeeded and brought the count to a multiple of 10.
C8_PeriodicCadence ==
  (pc = "loop" /\ iterKind = "fetch") =>
     (iterSaved <=> (success /\ count % 10 = 0))

\* C9 (final checkpoint), as claimed: every run that has returned has called
\* the final save_state.
C9_FinalCheckpoint == pc = "done" => finalSaved
\* C9 (final checkpoint), amended: a run that has returned either called the
\* final save_state, or found the queue empty right after seeding and returned
\* without saving; in both cases the checkpoint file holds its final frontier.
C9_FinalCheckpointAmended ==
  pc = "done" =>
     /\ finalSaved <=> (dequeued # <<>> \/ queue # <<>>)
     /\ ~ finalSaved => resume
     /\ file = save_state(visited, queue)
\* a resumed run returned at line 218 without saving
C9_Witness == pc = "done" /\ ~ finalSaved /\ resume /\ visited # {}

\* C10 (normalization stability): normalizing a discovered link again
\* changes nothing, and no two queued URLs have the same normal form.
C10_NormalizationStable ==
  /\ (pc = "after" /\ success) =>
        \A i \in DOMAIN new_links : NormalizeLink(new_links[i]) = new_links[i]
  /\ \A i, j \in DOMAIN queue :
        NormalizeLink(queue[i]) = NormalizeLink(queue[j]) => i = j

\* C11 (one file per saved page): the URLs whose pages were saved in this
\* run have pairwise different file names, and the file of each still holds
\* that page.
C11_OneFilePerPage ==
  /\ \A u, v \in saved : u # v => clean_filename(u) # clean_filename(v)
  /\ \A u \in saved :
        /\ clean_filename(u) \in DOMAIN outdir
        /\ outdir[clean_filename(u)].source_url = u

\* C12 (rate limiting), as claimed: the politeness sleeps that follow the
\* fetch attempts of a URL are as many as those attempts (attempt is the
\* number of crawler.arun calls of the round that ends).
C12_RateLimiting ==
  [][ pc = "after" => waits' = waits + attempt ]_vars
\* C12 (rate limiting), amended: every loop iteration that fetched a URL ends
\* with exactly one politeness sleep, whatever the number and the outcome of
\* its attempts, and nothing else sleeps the politeness delay; the sleeps of
\* a run are as many as the URLs it has finished fetching.
C12_RateLimitingAmended ==
  /\ [][ /\ pc = "after" => waits' = waits + 1
         /\ (run' = run /\ waits' # waits) => pc = "after" ]_vars
  /\ [](waits = Len(fetchLog) - (IF pc \in {"attempt", "after"} THEN 1 ELSE 0))
\* a URL had two failed attempts and one politeness sleep
C12_Witness ==
  /\ pc = "loop" /\ iterKind = "fetch" /\ ~ success
  /\ Len(fetchLog) = 1 /\ waits = 1

\* C13 (atomic checkpoint): whenever main() is about to start, and so may
\* call load_state, the state file is absent or a complete checkpoint, and
\* no run ends because load_state could not read the file.
C13_AtomicCheckpoint ==
  /\ pc = "idle" => ~ LoadRaises(file)
  /\ pc # "crashed"

\* the queue the loop starts from: the loaded queue followed by the new seeds
StartQueue == Seed(SEEDS, loaded.visited, loaded.queue)

\* C14 (FIFO crawl order): the URLs popped so far, followed by the queue,
\* are the URLs appended in this run in the order of their appending; so a
\* URL appended before another one is popped before it, and the URLs are
\* fetched in the order of their appending.
C14_FifoOrder ==
  /\ enqueued = dequeued \o queue
  /\ \A i, j \in DOMAIN fetchLog :
        i < j => \E k, l \in DOMAIN enqueued :
                    /\ k < l
                    /\ StripSlash(enqueued[k]) = fetchLog[i]
                    /\ StripSlash(enqueued[l]) = fetchLog[j]
\* a link found during the run has been popped after everything the run
\* started with, and later links wait behind it
C14_Witness ==
  /\ pc = "attempt" /\ Len(dequeued) = Len(StartQueue) + 1
  /\ queue # <<>>
  /\ enqueued[Len(dequeued)] = current_url

\* C15 (enqueue on success): after a successful fetch the queue is the queue
\* as it was after the pop, followed by the valid links of the page that
\* were neither visited nor queued, in their order; no URL in the queue
\* fails is_valid_url; and a run with budget 1 that starts from the seed
\* queue [P] and nothing visited ends with visited = {P}.
C15_EnqueueOnSuccess ==
  /\ (pc = "after" /\ success) =>
        /\ \A i \in DOMAIN new_links : is_valid_url(new_links[i])
        /\ queue = queue0 \o SelectSeq(new_links,
                     LAMBDA l : l \notin visited /\ l \notin Range(queue0))
  /\ \A i \in DOMAIN queue : is_valid_url(queue[i])
  /\ (pc = "done" /\ max_pages = 1 /\ Len(StartQueue) = 1 /\ loaded.visited = {}) =>
        visited = {StripSlash(StartQueue[1])}
\* the run with budget 1 and seed queue [P] has ended after fetching P, whose
\* new links are in the queue
C15_Witness ==
  /\ pc = "done" /\ max_pages = 1 /\ Len(StartQueue) = 1 /\ loaded.visited = {}
  /\ count = 1 /\ Len(queue) >= 2 /\ StartQueue[1] \notin Range(queue)

\* C16 (backoff placement): the backoff sleeps of a round are those between
\* a failed attempt and the retry that follows it, the k-th of them lasting
\* k * 2 seconds: after attempt number a has begun there have been a - 1 of
\* them, and none follows the last permitted attempt or a successful one.
C16_BackoffPlacement ==
  pc \in {"attempt", "after"} =>
     backoffs = [k \in 1..(attempt - 1) |-> k * 2]

\* the path component of a URL ends in one of the skipped extensions
PathHasSkippedExt(url) ==
  \E ext \in SKIP_EXTENSIONS : EndsWith(Lower(UrlPath(url)), ext)
HasForbiddenMarker(url) ==
  \/ Contains(url, <<"#">>) \/ Contains(url, JAVASCRIPT)
  \/ Contains(url, MAILTO) \/ Contains(url, TEL)

\* C17 (extension rejection): is_valid_url returns False for every URL whose
\* path ends in a skipped extension, in any letter case and whatever query
\* string follows the path, for every URL whose host is not an allowed
\* domain and for every URL containing "#", "javascript:", "mailto:" or
\* "tel:".
C17_ExtensionRejection ==
  call.fn = "is_valid_url" =>
     ( ( \/ PathHasSkippedExt(call.arg)
         \/ UrlNetloc(call.arg) \notin ALLOWED_DOMAINS
         \/ HasForbiddenMarker(call.arg) )
       => ~ UrlRaises(call.arg) /\ ~ call.res )

\* the normalized form of the i-th href of a page (lines 169-171)
NormHref(hrefs, base_url, i) == NormalizeLink(urljoin(base_url, hrefs[i]))
\* the hrefs whose normalized form is a valid URL seen for the first time
FirstValid(hrefs, base_url) ==
  { i \in DOMAIN hrefs :
      /\ NormHref(hrefs, base_url, i) # <<>>
      /\ is_valid_url(NormHref(hrefs, base_url, i))
      /\ \A j \in 1..(i - 1) :
            NormHref(hrefs, base_url, j) # NormHref(hrefs, base_url, i) }
LinkListOk(hrefs, base_url, res) ==
  /\ NoDup(res)
  /\ \A k \in DOMAIN res : is_valid_url(res[k])
  /\ Len(res) = Cardinality(FirstValid(hrefs, base_url))
  /\ \A k \in DOMAIN res :
        \E i \in FirstValid(hrefs, base_url) :
           /\ NormHref(hrefs, base_url, i) = res[k]
           /\ Cardinality({j \in FirstValid(hrefs, base_url) : j < i}) = k - 1

\* C18 (link discovery): for every page and base URL extract_links returns a
\* list without repeated elements, whose elements all pass is_valid_url, in
\* the order in which the normalized links first appear in the page.
C18_LinkDiscovery ==
  call.fn = "extract_links" =>
     /\ call.res # RAISE
     /\ LinkListOk(call.arg.html.hrefs, call.arg.base_url, call.res)

\* str.splitlines of a text whose lines are not empty
RECURSIVE SplitLines(_)
SplitLines(text) ==
  IF text = <<>> THEN <<>>
  ELSE <<SplitFirst(text, "\n")>>
         \o SplitLines(SubSeq(text, Len(SplitFirst(text, "\n")) + 2, Len(text)))
WordChars == AlnumChars \cup {"_"}
\* the trimmed lines that are kept, by position: the first occurrences of
\* the lines no filter drops
KeptAt(lines) ==
  { i \in DOMAIN lines :
      /\ Len(Strip(lines[i])) >= 10
      /\ Lower(Strip(lines[i])) \notin LowerJunk
      /\ \E c \in Range(Strip(lines[i])) : c \in AlnumChars
      /\ \A j \in 1..(i - 1) : Strip(lines[j]) # Strip(lines[i]) }

\* C19 (extraction line filter): the cleaned text consists of the surviving
\* trimmed lines, each exactly once and in the order of their first
\* occurrence; every one of them is non-empty, has at least 10 characters,
\* is no denylisted phrase in any letter case and has a word character.
C19_LineFilter ==
  call.fn = "extract_clean_content" =>
     \A out \in {SplitLines(call.res)} :
        /\ NoDup(out)
        /\ \A k \in DOMAIN out :
              /\ out[k] # <<>> /\ Len(out[k]) >= 10
              /\ Lower(out[k]) \notin LowerJunk
              /\ \E c \in Range(out[k]) : c \in WordChars
        /\ Len(out) = Cardinality(KeptAt(call.arg.lines))
        /\ \A k \in DOMAIN out :
              \E i \in KeptAt(call.arg.lines) :
                 /\ Strip(call.arg.lines[i]) = out[k]
                 /\ Cardinality({j \in KeptAt(call.arg.lines) : j < i}) = k - 1
\* a line, the same line with blanks around it and a denylisted phrase of
\* ten characters give a cleaned text of that one line
C19_Witness ==
  /\ call.fn = "extract_clean_content"
  /\ Len(call.arg.lines) = 3
  /\ call.arg.lines[1] # call.arg.lines[2]
  /\ Strip(call.arg.lines[1]) = Strip(call.arg.lines[2])
  /\ Len(call.arg.lines[3]) >= 10 /\ Lower(call.arg.lines[3]) \in LowerJunk
  /\ call.res = Strip(call.arg.lines[1]) /\ call.res # <<>>

\* C20 (termination): a run that has entered the crawl loop eventually
\* leaves it and returns after the final save_state, whatever the outcomes
\* of its fetch attempts and the links of its pages.
C20_Termination ==
  (pc = "loop") ~> (pc = "done" /\ finalSaved)
\* a run has returned, the budget not used up: a fetch failed on all its
\* attempts and a link back to a visited page was popped and skipped
C20_Witness ==
  /\ pc = "done" /\ finalSaved /\ queue = <<>> /\ count < max_pages
  /\ Cardinality(visited \ loaded.visited) > count
  /\ Len(dequeued) > Len(fetchLog)
====
